---- MODULE Spec2Model ----
(***************************************************************************)
(* Sale / Product inventory coupling of the tally back-office.             *)
(*                                                                         *)
(* The database holds one row per Product (its on-hand quantity) and one   *)
(* row per saved Sale (the ledger).  Python processes hold in-memory model *)
(* instances: a Sale and the Product instance reached through             *)
(* `self.product`.  Sale.save and Sale.delete work on the in-memory        *)
(* product and write it back with Product.save(), which is a blind write   *)
(* of the in-memory value.  Every database access is one step, so that     *)
(* requests of different processes interleave between them.                *)
(***************************************************************************)
EXTENDS Integers, FiniteSets, TLC

\* ---------------------------------------------------------------- bounds
InitStock == 2      \* on-hand quantity every product starts with
MaxSales  == 2      \* Sale instances ever constructed (uuid4 ids 1..MaxSales)
MaxPrice  == 2      \* largest unit price amount
MaxRate   == 2      \* largest exchange rate

Products   == {"p1", "p2"}
Stores     == {"s1", "s2"}
Currencies == {"NGN", "USD"}
Procs      == {"a", "b"}

\* what the requests of Spec and SeqSpec are about
SoldProducts  == {"p1"}
SellingStores == {"s1"}
\* quantities a caller may pass: negative, zero, in stock, above stock
Quantities == (0 - 1) .. (InitStock + 1)

VARIABLES
    db,        \* db[p]: persisted Product.quantity
    ledger,    \* persisted Sale rows
    nextId,    \* next fresh Sale.id
    pc,        \* pc[s]: where process s stands in save()/delete()
    sale,      \* sale[s]: the Sale instance process s works on
    prod,      \* prod[s]: quantity of the in-memory sale[s].product
    outcome,   \* what the operation that ended most recently returned or raised
    faulted,   \* history: some database write has failed
    left,      \* in-memory Sale instance, left operand of + and -
    right,     \* in-memory Sale instance, right operand of + and -
    combined,  \* what the last + or - returned or raised
    price,     \* price[p]: Product.price, a Money
    rates,     \* rates[<<source, target>>]: the stored exchange rate, if any
    revenue    \* the last get_total_revenue call and what it returned or raised

vars == <<db, ledger, nextId, pc, sale, prod, outcome, faulted,
          left, right, combined, price, rates, revenue>>

sellVars == <<db, ledger, nextId, pc, sale, prod, outcome, faulted>>
calcVars == <<left, right, combined, price, rates, revenue>>

NoSale == [id |-> 0, store |-> "none", product |-> "none", quantity |-> 0]

\* kind:   "ok" (save returned), "deleted" (delete returned) or the exception
\* avail:  the quantity the ValidationError message reports
\* held:   quantity of the caller's product instance when save() raised
\* id:     the Sale a save() that returned was about
\* before: persisted quantity of its product when that save() wrote it
Outcome(kind, avail, held, id, before) ==
    [kind |-> kind, avail |-> avail, held |-> held, id |-> id, before |-> before]

NoOutcome == Outcome("none", 0, 0, 0, 0)

\* ------------------------------------------------------- Sale.save pieces
\* `if self.quantity == 0`
IsZero(q) == q = 0

ExceedsStock_Never(q, avail) == FALSE
ExceedsStock_OffByOne(q, avail) == q > avail + 1
\* `if self.quantity > self.product.quantity`
ExceedsStock(q, avail) == q > avail

Decrement_Twice(avail, q) == avail - q - q
\* `self.product.quantity -= self.quantity`
Decrement(avail, q) == avail - q

Increment_Nothing(avail, q) == avail
\* `self.product.quantity += self.quantity`
Increment(avail, q) == avail + q

\* quantity = models.PositiveIntegerField(): the column carries the check
\* quantity >= 0, so the INSERT of a negative quantity is rejected
ColumnAccepts(q) == q >= 0

\* Product.save(): UPDATE of the row with the in-memory value
ProductSave(table, p, value) == [table EXCEPT ![p] = value]

\* the operation returns or raises: its instances go out of use
Finish(s, result) ==
    /\ pc' = [pc EXCEPT ![s] = "idle"]
    /\ sale' = [sale EXCEPT ![s] = NoSale]
    /\ prod' = [prod EXCEPT ![s] = 0]
    /\ outcome' = result

\* The caller fetches product p, constructs Sale(store, product, quantity) (the
\* id is the uuid4 default) and calls save(); lines 80-85: the two checks and
\* the in-memory decrement.
SaveValidate(s, st, p, q) ==
    /\ pc[s] = "idle"
    /\ nextId <= MaxSales
    /\ nextId' = nextId + 1
    /\ IF IsZero(q)
       THEN Finish(s, Outcome("ZeroQuantity", 0, db[p], 0, 0))
       ELSE IF ExceedsStock(q, db[p])
       THEN Finish(s, Outcome("Insufficient", db[p], db[p], 0, 0))
       ELSE /\ sale' = [sale EXCEPT ![s] =
                          [id |-> nextId, store |-> st, product |-> p, quantity |-> q]]
            /\ prod' = [prod EXCEPT ![s] = Decrement(db[p], q)]
            /\ pc' = [pc EXCEPT ![s] = "save_insert"]
            /\ UNCHANGED outcome
    /\ UNCHANGED <<db, ledger, faulted, calcVars>>

\* save(), line 88: super().save() inserts the Sale row
SaveInsert(s) ==
    /\ pc[s] = "save_insert"
    /\ IF ColumnAccepts(sale[s].quantity)
       THEN /\ ledger' = ledger \cup {sale[s]}
            /\ pc' = [pc EXCEPT ![s] = "save_product"]
            /\ UNCHANGED <<sale, prod, outcome>>
       ELSE /\ Finish(s, Outcome("IntegrityError", 0, prod[s], 0, 0))
            /\ UNCHANGED ledger
    /\ UNCHANGED <<db, nextId, faulted, calcVars>>

\* save(), line 88 when the database fails: the exception leaves save()
SaveInsertFail(s) ==
    /\ pc[s] = "save_insert"
    /\ Finish(s, Outcome("DatabaseError", 0, prod[s], 0, 0))
    /\ faulted' = TRUE
    /\ UNCHANGED <<db, ledger, nextId, calcVars>>

\* save(), line 89: self.product.save()
SaveProduct(s) ==
    /\ pc[s] = "save_product"
    /\ db' = ProductSave(db, sale[s].product, prod[s])
    /\ Finish(s, Outcome("ok", 0, 0, sale[s].id, db[sale[s].product]))
    /\ UNCHANGED <<ledger, nextId, faulted, calcVars>>

SaveProductFail(s) ==
    /\ pc[s] = "save_product"
    /\ Finish(s, Outcome("DatabaseError", 0, prod[s], 0, 0))
    /\ faulted' = TRUE
    /\ UNCHANGED <<db, ledger, nextId, calcVars>>

\* ----------------------------------------------------- Sale.delete pieces
\* The caller fetches the saved Sale e; the related product is not loaded yet.
GetSale(s, e) ==
    /\ pc[s] = "idle"
    /\ e \in ledger
    /\ sale' = [sale EXCEPT ![s] = e]
    /\ pc' = [pc EXCEPT ![s] = "delete"]
    /\ UNCHANGED <<db, ledger, nextId, prod, outcome, faulted, calcVars>>

\* delete(), line 94: self.product is loaded from the database, then
\* incremented in memory
DeleteIncrement(s) ==
    /\ pc[s] = "delete"
    /\ prod' = [prod EXCEPT ![s] = Increment(db[sale[s].product], sale[s].quantity)]
    /\ pc' = [pc EXCEPT ![s] = "delete_row"]
    /\ UNCHANGED <<db, ledger, nextId, sale, outcome, faulted, calcVars>>

\* delete(), line 95: super().delete(); deleting a row that is gone is no error
DeleteRow(s) ==
    /\ pc[s] = "delete_row"
    /\ ledger' = {e \in ledger : e.id # sale[s].id}
    /\ pc' = [pc EXCEPT ![s] = "delete_product"]
    /\ UNCHANGED <<db, nextId, sale, prod, outcome, faulted, calcVars>>

DeleteRowFail(s) ==
    /\ pc[s] = "delete_row"
    /\ Finish(s, Outcome("DatabaseError", 0, 0, 0, 0))
    /\ faulted' = TRUE
    /\ UNCHANGED <<db, ledger, nextId, calcVars>>

\* delete(), line 96: self.product.save()
DeleteProduct(s) ==
    /\ pc[s] = "delete_product"
    /\ db' = ProductSave(db, sale[s].product, prod[s])
    /\ Finish(s, Outcome("deleted", 0, 0, 0, 0))
    /\ UNCHANGED <<ledger, nextId, faulted, calcVars>>

DeleteProductFail(s) ==
    /\ pc[s] = "delete_product"
    /\ Finish(s, Outcome("DatabaseError", 0, 0, 0, 0))
    /\ faulted' = TRUE
    /\ UNCHANGED <<db, ledger, nextId, calcVars>>

\* ------------------------------------------------- Sale.__add__, __sub__
\* an in-memory Product instance and an in-memory Sale instance holding one
Instance(pk, quantity) == [pk |-> pk, quantity |-> quantity]
SaleObj(id, st, product, q) == [id |-> id, store |-> st, product |-> product, quantity |-> q]

NoProduct == Instance("none", 0)
NoObj == SaleObj(0, "none", NoProduct, 0)
NoCombined == [op |-> "none", raised |-> "none", value |-> NoObj]

ProductEq_AllFields(a, b) == a = b
\* Product.__eq__: `isinstance(other, self.__class__) and self.pk == other.pk`
ProductEq(a, b) == a.pk = b.pk

\* `self.product != other.product`: Python derives != from __eq__
ProductNe(a, b) == ~ProductEq(a, b)

\* Sale(store=..., product=..., quantity=...): a new instance with a fresh id
Returned(op, value) == [op |-> op, raised |-> "none", value |-> value]
Raised(op, exc) == [op |-> op, raised |-> exc, value |-> NoObj]

\* Sale.__add__
SaleAdd(a, b, id) ==
    IF ProductNe(a.product, b.product)
    THEN Raised("add", "ValueError")
    ELSE Returned("add", SaleObj(id, a.store, a.product, a.quantity + b.quantity))

\* Sale.__sub__
SaleSub(a, b, id) ==
    IF ProductNe(a.product, b.product)
    THEN Raised("sub", "ValueError")
    ELSE Returned("sub", SaleObj(id, a.store, a.product, a.quantity - b.quantity))

\* left + right
Add ==
    /\ left # NoObj
    /\ combined = NoCombined
    /\ combined' = SaleAdd(left, right, nextId)
    /\ nextId' = nextId + 1
    /\ UNCHANGED <<db, ledger, pc, sale, prod, outcome, faulted,
                   left, right, price, rates, revenue>>

\* left - right
Sub ==
    /\ left # NoObj
    /\ combined = NoCombined
    /\ combined' = SaleSub(left, right, nextId)
    /\ nextId' = nextId + 1
    /\ UNCHANGED <<db, ledger, pc, sale, prod, outcome, faulted,
                   left, right, price, rates, revenue>>

\* ------------------------------------------------ Sale.get_total_revenue
Money(amount, currency) == [kind |-> "Money", amount |-> amount, currency |-> currency]
PyInt(n) == [kind |-> "int", amount |-> n, currency |-> "none"]
MissingRate == [kind |-> "MissingRate", amount |-> 0, currency |-> "none"]
IsRaised(v) == v.kind = "MissingRate"

\* an entry of the rate table
Rate(value) == [known |-> TRUE, value |-> value]
Unknown == [known |-> FALSE, value |-> 0]
CurrencyPairs == {<<"NGN", "USD">>, <<"USD", "NGN">>}

\* djmoney get_rate: 1 within a currency, the stored rate otherwise
GetRate(rt, source, target) == IF source = target THEN Rate(1) ELSE rt[<<source, target>>]

\* djmoney convert_money(value, currency): MissingRate when no rate is stored
ConvertMoney(rt, value, currency) ==
    IF ~GetRate(rt, value.currency, currency).known
    THEN MissingRate
    ELSE Money(value.amount * GetRate(rt, value.currency, currency).value, currency)

\* Sale.revenue: `self.quantity * self.product.price`
Revenue(pr, e) == Money(e.quantity * pr[e.product].amount, pr[e.product].currency)

\* Money.__add__ / __radd__ as sum() uses them: 0 + m is m
MoneyAdd(acc, m) ==
    IF acc.kind = "int" /\ acc.amount = 0 THEN m
    ELSE Money(acc.amount + m.amount, m.currency)

\* Python truthiness of an int or a Money
Truthy(v) == v.amount # 0

PyOr_Left(x, y) == x
\* `x or y`
PyOr(x, y) == IF Truthy(x) THEN x ELSE y

\* cls.objects.filter(**filter)
Filters ==
    {[field |-> "all", value |-> "all"]}
        \cup {[field |-> "product", value |-> p] : p \in Products}
        \cup {[field |-> "store", value |-> st] : st \in Stores}

Matches(e, f) ==
    \/ f.field = "all"
    \/ f.field = "product" /\ e.product = f.value
    \/ f.field = "store" /\ e.store = f.value

Filter(rows, f) == {e \in rows : Matches(e, f)}

\* the queryset is iterated in Meta.ordering; ids stand for made_at
Newest(rows) == CHOOSE e \in rows : \A o \in rows : o.id <= e.id

RECURSIVE SumConverted(_, _, _, _, _)
\* sum(map(lambda sale: convert_money(sale.revenue, currency), queryset)):
\* an exception of convert_money leaves sum()
SumConverted(pr, rt, rows, currency, acc) ==
    IF rows = {} THEN acc
    ELSE LET e == Newest(rows)
             m == ConvertMoney(rt, Revenue(pr, e), currency)
         IN IF IsRaised(m) THEN MissingRate
            ELSE SumConverted(pr, rt, rows \ {e}, currency, MoneyAdd(acc, m))

\* Sale.get_total_revenue(currency, **filter)
TotalRevenue(pr, rt, rows, currency, f) ==
    LET total == SumConverted(pr, rt, Filter(rows, f), currency, PyInt(0))
    IN IF IsRaised(total) THEN total ELSE PyOr(total, Money(0, currency))

\* a call that has not returned yet
Pending == [kind |-> "pending", amount |-> 0, currency |-> "none"]
Call(currency, f) == [currency |-> currency, filter |-> f, result |-> Pending]
NoRevenue == Call("none", [field |-> "none", value |-> "none"])

\* the call Sale.get_total_revenue(revenue.currency, **revenue.filter) returns
GetTotalRevenue ==
    /\ revenue.currency \in Currencies
    /\ revenue.result = Pending
    /\ revenue' = [revenue EXCEPT !.result =
                      TotalRevenue(price, rates, ledger, revenue.currency, revenue.filter)]
    /\ UNCHANGED <<db, ledger, nextId, pc, sale, prod, outcome, faulted,
                   left, right, combined, price, rates>>

\* ------------------------------------------------------------ behaviours
NoCalc ==
    /\ left = NoObj
    /\ right = NoObj
    /\ combined = NoCombined
    /\ price = [p \in Products |-> Money(1, "NGN")]
    /\ rates = [c \in CurrencyPairs |-> Unknown]
    /\ revenue = NoRevenue

NoRequests ==
    /\ pc = [s \in Procs |-> "idle"]
    /\ sale = [s \in Procs |-> NoSale]
    /\ prod = [s \in Procs |-> 0]
    /\ outcome = NoOutcome
    /\ faulted = FALSE

Init ==
    /\ db = [p \in Products |-> InitStock]
    /\ ledger = {}
    /\ nextId = 1
    /\ NoRequests
    /\ NoCalc

\* one step of process s
Step(s) ==
    \/ \E st \in SellingStores, p \in SoldProducts, q \in Quantities : SaveValidate(s, st, p, q)
    \/ SaveInsert(s)
    \/ SaveInsertFail(s)
    \/ SaveProduct(s)
    \/ SaveProductFail(s)
    \/ \E e \in ledger : GetSale(s, e)
    \/ DeleteIncrement(s)
    \/ DeleteRow(s)
    \/ DeleteRowFail(s)
    \/ DeleteProduct(s)
    \/ DeleteProductFail(s)

\* requests of different processes interleave freely
Next == \E s \in Procs : Step(s)

Spec == Init /\ [][Next]_vars

\* one request at a time: a process takes a step only when no other request
\* is under way
Alone(s) == \A t \in Procs \ {s} : pc[t] = "idle"

SeqNext ==
    \/ \E s \in Procs, st \in SellingStores, p \in SoldProducts, q \in Quantities :
          Alone(s) /\ SaveValidate(s, st, p, q)
    \/ \E s \in Procs : Alone(s) /\ SaveInsert(s)
    \/ \E s \in Procs : Alone(s) /\ SaveInsertFail(s)
    \/ \E s \in Procs : Alone(s) /\ SaveProduct(s)
    \/ \E s \in Procs : Alone(s) /\ SaveProductFail(s)
    \/ \E s \in Procs, e \in ledger : Alone(s) /\ GetSale(s, e)
    \/ \E s \in Procs : Alone(s) /\ DeleteIncrement(s)
    \/ \E s \in Procs : Alone(s) /\ DeleteRow(s)
    \/ \E s \in Procs : Alone(s) /\ DeleteRowFail(s)
    \/ \E s \in Procs : Alone(s) /\ DeleteProduct(s)
    \/ \E s \in Procs : Alone(s) /\ DeleteProductFail(s)

SeqSpec == Init /\ [][SeqNext]_vars

\* saved rows a ledger can hold: ids 1..MaxSales, positive quantities
Rows == [id : 1 .. MaxSales, store : Stores, product : Products, quantity : {1, InitStock}]
Ledgers == {l \in SUBSET Rows : \A x \in l, y \in l : x.id = y.id => x = y}

\* two saved Sales loaded into memory, each with its own product instance
CombineInit ==
    /\ db = [p \in Products |-> InitStock]
    /\ \E st1 \in Stores, st2 \in Stores, p1 \in Products, p2 \in Products,
          q1 \in 1 .. InitStock, q2 \in 1 .. InitStock,
          h1 \in 0 .. InitStock, h2 \in 0 .. InitStock :
          /\ left = SaleObj(1, st1, Instance(p1, h1), q1)
          /\ right = SaleObj(2, st2, Instance(p2, h2), q2)
          /\ ledger = {[id |-> 1, store |-> st1, product |-> p1, quantity |-> q1],
                       [id |-> 2, store |-> st2, product |-> p2, quantity |-> q2]}
    /\ nextId = 3
    /\ NoRequests
    /\ combined = NoCombined
    /\ price = [p \in Products |-> Money(1, "NGN")]
    /\ rates = [c \in CurrencyPairs |-> Unknown]
    /\ revenue = NoRevenue

CombineNext ==
    \/ Add
    \/ Sub

CombineSpec == CombineInit /\ [][CombineNext]_vars

\* a ledger, a price list (p1 in the default currency), a rate table and the
\* arguments of one call
RevenueInit ==
    /\ db = [p \in Products |-> InitStock]
    /\ ledger \in Ledgers
    /\ nextId = MaxSales + 1
    /\ NoRequests
    /\ left = NoObj
    /\ right = NoObj
    /\ combined = NoCombined
    /\ \E a1 \in 0 .. MaxPrice, a2 \in 0 .. MaxPrice :
          price = [p \in Products |-> IF p = "p1" THEN Money(a1, "NGN") ELSE Money(a2, "USD")]
    /\ rates \in [CurrencyPairs -> {Unknown, Rate(MaxRate)}]
    /\ \E c \in Currencies, f \in Filters : revenue = Call(c, f)

RevenueNext == GetTotalRevenue

RevenueSpec == RevenueInit /\ [][RevenueNext]_vars

\* ================================================================ claims
AllIdle == \A s \in Procs : pc[s] = "idle"
RowsOf(id) == {e \in ledger : e.id = id}

RECURSIVE SumQuantity(_)
SumQuantity(rows) ==
    IF rows = {} THEN 0
    ELSE LET e == CHOOSE x \in rows : TRUE IN e.quantity + SumQuantity(rows \ {e})

\* quantity of product p the ledger records as sold
Sold(p) == SumQuantity({e \in ledger : e.product = p})

\* C1: a commit of q with 0 < q <= Q, Q the on-hand quantity, passes both
\* checks, adds exactly one row (the new Sale, quantity q) to the ledger and
\* leaves the persisted quantity at exactly Q - q, with save() returning.
C1_CommitWithinStock ==
    [][\A s \in Procs :
        /\ \A st \in SellingStores, p \in SoldProducts, q \in Quantities :
              (SaveValidate(s, st, p, q) /\ 0 < q /\ q <= db[p]) =>
                  /\ pc'[s] = "save_insert"
                  /\ sale'[s] = [id |-> nextId, store |-> st, product |-> p, quantity |-> q]
                  /\ RowsOf(nextId) = {}
                  /\ ledger' = ledger /\ db' = db
        /\ (SaveInsert(s) /\ sale[s].quantity > 0) =>
              /\ pc'[s] = "save_product"
              /\ ledger' = ledger \cup {sale[s]} /\ sale[s] \notin ledger
              /\ db' = db
        /\ SaveProduct(s) =>
              /\ outcome'.kind = "ok"
              /\ db' = [db EXCEPT ![sale[s].product] = db[sale[s].product] - sale[s].quantity]
              /\ ledger' = ledger /\ RowsOf(sale[s].id) = {sale[s]}
      ]_vars

\* a commit has returned: its row is in the ledger and the stock went down by it
C1_Witness ==
    /\ AllIdle
    /\ outcome.kind = "ok"
    /\ \E e \in ledger : /\ e.id = outcome.id
                         /\ e.quantity > 0
                         /\ outcome.before > 0
                         /\ db[e.product] = outcome.before - e.quantity

\* C2: a commit of q > P.quantity raises the "greater than available"
\* ValidationError, which reports the on-hand quantity; no row is created and
\* neither the persisted quantity nor the caller's product instance changes.
C2_InsufficientRejected ==
    [][\A s \in Procs, st \in SellingStores, p \in SoldProducts, q \in Quantities :
          (SaveValidate(s, st, p, q) /\ q > db[p]) =>
              /\ pc'[s] = "idle"
              /\ outcome'.kind = "Insufficient"
              /\ outcome'.avail = db[p]
              /\ outcome'.held = db[p]
              /\ ledger' = ledger /\ db' = db
      ]_vars

\* a commit was rejected for lack of stock after an earlier sale took some
C2_Witness ==
    /\ outcome.kind = "Insufficient"
    /\ outcome.avail = db["p1"]
    /\ outcome.avail < InitStock
    /\ Sold("p1") + db["p1"] = InitStock
    /\ ledger # {}

\* C3: a commit of a zero or negative quantity raises the "cannot be zero"
\* ValidationError at once; no row is created, the persisted quantity and the
\* caller's product instance are unchanged.
C3_NonPositiveRejected ==
    [][\A s \in Procs, st \in SellingStores, p \in SoldProducts, q \in Quantities :
          (SaveValidate(s, st, p, q) /\ q <= 0) =>
              /\ pc'[s] = "idle"
              /\ outcome'.kind = "ZeroQuantity"
              /\ outcome'.held = db[p]
              /\ ledger' = ledger /\ db' = db
      ]_vars

\* C4: a reverse that returns has put the entry's quantity back on top of the
\* on-hand quantity it found and the entry is gone; when it directly follows
\* the commit of that entry, the quantity is the pre-commit one again.
C4_ReverseRestores ==
    [][\A s \in Procs :
          DeleteProduct(s) =>
              /\ outcome'.kind = "deleted"
              /\ db' = [db EXCEPT ![sale[s].product] = db[sale[s].product] + sale[s].quantity]
              /\ \A e \in ledger' : e.id # sale[s].id
              /\ (outcome.kind = "ok" /\ outcome.id = sale[s].id) =>
                     db'[sale[s].product] = outcome.before
      ]_vars

\* commits were reversed and the stock is whole again
C4_Witness ==
    /\ AllIdle
    /\ outcome.kind = "deleted"
    /\ ~faulted
    /\ ledger = {}
    /\ db["p1"] = InitStock

\* C5: when one of the two writes of a commit fails, neither effect stays:
\* the ledger holds no row of that Sale and the persisted quantity is the one
\* from before the commit.
C5_CommitAtomic ==
    [][\A s \in Procs :
          (SaveInsertFail(s) \/ SaveProductFail(s)) =>
              /\ \A e \in ledger' : e.id # sale[s].id
              /\ db' = db
      ]_vars

\* C6: commits against one product are serialized: with no write failing, the
\* committed quantities never add up to more than the initial stock and the
\* persisted quantity is the initial stock minus their sum.
C6_CommitsSerialized ==
    (AllIdle /\ ~faulted) =>
        \A p \in Products : /\ Sold(p) <= InitStock
                            /\ db[p] = InitStock - Sold(p)

\* C7: the persisted on-hand quantity of every product is never negative.
C7_StockNonNegative == \A p \in Products : db[p] >= 0

\* the ledger records more than the stock ever held, the stock is at zero
C7_Witness ==
    /\ AllIdle
    /\ db["p1"] = 0
    /\ Sold("p1") > InitStock

\* C10: a reverse persists the incremented product before it removes the row:
\* while a delete is under way, its row is never gone with the persisted
\* quantity not yet restored.
C10_ProductWrittenFirst ==
    \A s \in Procs :
        (pc[s] \in {"delete_row", "delete_product"} /\ RowsOf(sale[s].id) = {}) =>
            db[sale[s].product] = prod[s]

\* C8: + and - of two entries of the same product (same pk) return a new,
\* unsaved Sale with the left operand's store and product and the sum or the
\* difference as quantity, a zero or negative difference included; with
\* different products both raise ValueError; operands, ledger and stock stay.
CombineRight ==
    combined.op # "none" =>
        IF left.product.pk = right.product.pk
        THEN /\ combined.raised = "none"
             /\ combined.value.store = left.store
             /\ combined.value.product = left.product
             /\ combined.value.quantity =
                    IF combined.op = "add" THEN left.quantity + right.quantity
                                           ELSE left.quantity - right.quantity
             /\ RowsOf(combined.value.id) = {}
        ELSE combined.raised = "ValueError"

C8_Combine ==
    [][/\ CombineRight'
       /\ left' = left /\ right' = right
       /\ ledger' = ledger /\ db' = db]_vars

\* a difference below zero came back, the operands holding two instances of
\* one product
C8_Witness ==
    /\ combined.op = "sub"
    /\ combined.raised = "none"
    /\ combined.value.quantity < 0
    /\ left.product # right.product

\* C9: get_total_revenue returns the sum over exactly the matching rows of
\* quantity x current unit price converted to the target currency; a zero
\* Money in the target currency when nothing matches; and it raises MissingRate
\* when a matching row's currency has no rate to the target.
Matching ==
    {e \in ledger : \/ revenue.filter.field = "all"
                    \/ revenue.filter.field = "product" /\ e.product = revenue.filter.value
                    \/ revenue.filter.field = "store" /\ e.store = revenue.filter.value}

Convertible(e) ==
    \/ price[e.product].currency = revenue.currency
    \/ rates[<<price[e.product].currency, revenue.currency>>].known

Converted(e) ==
    e.quantity * price[e.product].amount *
        (IF price[e.product].currency = revenue.currency THEN 1
         ELSE rates[<<price[e.product].currency, revenue.currency>>].value)

RECURSIVE SumOf(_)
SumOf(rows) ==
    IF rows = {} THEN 0
    ELSE LET e == CHOOSE x \in rows : TRUE IN Converted(e) + SumOf(rows \ {e})

C9_TotalRevenue ==
    revenue.result # Pending =>
        IF \E e \in Matching : ~Convertible(e)
        THEN revenue.result = MissingRate
        ELSE revenue.result = Money(SumOf(Matching), revenue.currency)

\* nothing matched in a ledger that holds rows: zero in the target currency
C9_Witness ==
    /\ revenue.result = Money(0, revenue.currency)
    /\ revenue.currency \in Currencies
    /\ Matching = {}
    /\ ledger # {}
====
